---- MODULE Spec2Model ----
(***************************************************************************)
(* UI element discovery of cerium's BaseAndroidDriver                      *)
(* (src/cerium/androiddriver.py): the snapshot cache filled by uidump and  *)
(* the locator scans find_element / find_elements that read it.            *)
(*                                                                         *)
(* One driver object (one session) talks to one device.  The device shows  *)
(* a UI hierarchy that the environment may change between calls.  Every    *)
(* method call is one atomic action: the driver is synchronous and         *)
(* single-threaded, so a call runs to its return or to its exception.      *)
(* The caller then takes the outcome (Continue) and is free to call again. *)
(***************************************************************************)
EXTENDS Integers, Sequences, FiniteSets, TLC

\* Largest number of <node> elements in a device UI hierarchy.
MaxNodes == 2

(***************************************************************************)
(* Data: strings that the code inspects character by character (the bounds *)
(* attribute) are tuples of one-character strings; attribute values that   *)
(* are only compared for equality are plain strings.                       *)
(***************************************************************************)
Digits == {"0", "1", "2", "3", "4", "5", "6", "7", "8", "9"}

DigitValue(c) ==
    CASE c = "0" -> 0 [] c = "1" -> 1 [] c = "2" -> 2 [] c = "3" -> 3
      [] c = "4" -> 4 [] c = "5" -> 5 [] c = "6" -> 6 [] c = "7" -> 7
      [] c = "8" -> 8 [] c = "9" -> 9

\* bounds="[10,20][30,40]": the shape uiautomator writes
Bounds_10_20_30_40 ==
    <<"[", "1", "0", ",", "2", "0", "]", "[", "3", "0", ",", "4", "0", "]">>

\* bounds="[0,0][3,5]": well formed, left+right and top+bottom are odd
Bounds_0_0_3_5 == <<"[", "0", ",", "0", "]", "[", "3", ",", "5", "]">>

\* bounds="abc": no integer run at all
Bounds_abc == <<"a", "b", "c">>

\* The locator strategies: each is the attribute key it matches against.
By == {"resource-id", "class"}

\* node.attrib of one <node> element: a mapping from attribute key to value.
\* uiautomator writes every attribute on every node, so each node carries the
\* key of every strategy and the key "bounds".
Attrib(id, cls, bounds) ==
    ("resource-id" :> id) @@ ("class" :> cls) @@ ("bounds" :> bounds)

\* The <node> elements a hierarchy is built from.  Two share the id "a" with
\* different bounds; one carries bounds that are not four integers.
NodeSet ==
    { Attrib("a", "Btn", Bounds_10_20_30_40),
      Attrib("a", "Txt", Bounds_0_0_3_5),
      Attrib("b", "Btn", Bounds_abc) }

\* The values a caller looks for: "a" is the id of two nodes and the class of
\* none, "Btn" is the class of two nodes and the id of none.
Values == {"a", "Btn"}

ChildSeqs(k) == UNION { [1..m -> NodeSet] : m \in 0..k }

\* The hierarchies of at most n <node> elements: a sequence of elements, each
\* with the sequence of the elements nested in it.
RECURSIVE Forests(_)
Forests(n) ==
    IF n = 0 THEN { <<>> }
    ELSE { <<>> } \cup
         UNION { { <<[attrib |-> a, children |-> c]>> \o f :
                      f \in Forests(n - 1 - Len(c)) } :
                 a \in NodeSet, c \in ChildSeqs(n - 1) }

Hierarchies == Forests(MaxNodes)

\* self._nodes before any uidump has assigned it (class attribute, line 43)
None == [type |-> "NoneType"]

(***************************************************************************)
(* State                                                                   *)
(***************************************************************************)
VARIABLES
    deviceUI,   \* the UI hierarchy the device shows now
    _nodes,     \* self._nodes: None, or the iterator ui.iter(tag="node")
    call,       \* the method call that has just ended, its name and
                \* arguments; NoCall while the caller is between calls
    outcome,    \* how that call ended: "return" with its value, or the
                \* name of the exception it raised
    steps,      \* what that call did: how many times it ran uidump, the dump
                \* command, the pull and the parse, and which step failed
    refreshed,  \* history: some uidump has run to its end
    uiChanged,  \* history: the device UI changed after the latest uidump
                \* that ran to its end
    threads     \* two threads sharing the driver: where a uidump and a
                \* find_element stand, line by line, and their local
                \* variables; NoThreads while the driver has one caller

vars ==
    <<deviceUI, _nodes, call, outcome, steps, refreshed, uiChanged, threads>>

(***************************************************************************)
(* Bounds parsing and the click point (find_element, lines 379-382)        *)
(***************************************************************************)
\* re.findall(r'\d+', bounds): the maximal runs of digits, left to right.
\* run is the run being read, out the runs already closed.
RECURSIVE FindAllFrom(_, _, _, _)
FindAllFrom(s, i, run, out) ==
    IF i > Len(s)
    THEN IF run = <<>> THEN out ELSE Append(out, run)
    ELSE IF s[i] \in Digits
         THEN FindAllFrom(s, i + 1, Append(run, s[i]), out)
         ELSE FindAllFrom(s, i + 1, <<>>,
                          IF run = <<>> THEN out ELSE Append(out, run))

re_findall_digits(s) == FindAllFrom(s, 1, <<>>, <<>>)

\* int(run) of a run of decimal digits
RECURSIVE int(_)
int(run) ==
    IF run = <<>> THEN 0
    ELSE 10 * int(SubSeq(run, 1, Len(run) - 1)) + DigitValue(run[Len(run)])

\* coord = list(map(int, re.findall(r'\d+', bounds))): every run, however many
Coord(bounds) ==
    LET runs == re_findall_digits(bounds)
    IN  [i \in 1..Len(runs) |-> int(runs[i])]

\* n / 2 in Python 3 is true division: the float n/2, exact for these sizes.
\* The float is written as its floor plus half halves (half is 0 or 1).
TrueDivBy2(n) == [floor |-> n \div 2, half |-> n % 2]

\* The float that equals the integer n
Whole(n) == [floor |-> n, half |-> 0]

\* click_point = (coord[0] + coord[2]) / 2, (coord[1] + coord[3]) / 2
\* (Python indexes from 0, the tuple here from 1)
ClickPoint(coord) ==
    <<TrueDivBy2(coord[1] + coord[3]), TrueDivBy2(coord[2] + coord[4])>>

\* self._element_cls(self, node.attrib, by, value, coord, click_point)
Elements(attrib, by, value, coord, click_point) ==
    [attrib |-> attrib, by |-> by, value |-> value,
     coord |-> coord, click_point |-> click_point]

(***************************************************************************)
(* The snapshot cache (uidump, lines 364-371)                              *)
(***************************************************************************)
\* What can go wrong in one uidump: nothing, the dump command, the
\* executor while pulling, a pull that reports 'error', or a pulled file
\* that the parser rejects.
Faults == {"none", "dump", "pull_exec", "pull_error", "parse"}

\* A call that runs no uidump meets no fault of one.
FaultsOf(ran) == IF ran = 1 THEN Faults ELSE {"none"}

RefreshErrors == {"DeviceCommandError", "FileNotFoundError", "ParserError"}

\* self._execute(...): the command executor.  It returns normally or
\* surfaces the command's failure as an error.
_execute(failed) == IF failed THEN "DeviceCommandError" ELSE "ok"

\* pull without its test of the output: a pull that reports 'error' returns
\* as if the file had arrived.
pullWithoutErrorCheck(fault) == _execute(fault = "pull_exec")

\* pull (lines 143-147): run the pull; 'error' in its output raises
\* FileNotFoundError.
pull(fault) ==
    LET ran == _execute(fault = "pull_exec")
    IN  IF ran # "ok" THEN ran
        ELSE IF fault = "pull_error" THEN "FileNotFoundError"
        ELSE "ok"

\* html.fromstring(open(local, 'rb').read()): the pulled markup as a tree, or
\* the parser's error.
fromstring(markup, fault) ==
    IF fault = "parse" THEN [raised |-> "ParserError", ui |-> <<>>]
    ELSE [raised |-> "none", ui |-> markup]

\* ui.iter(tag="node"): the <node> elements in document order, none
\* consumed yet.
RECURSIVE DocumentOrder(_)
DocumentOrder(ui) ==
    IF ui = <<>> THEN <<>>
    ELSE <<Head(ui).attrib>> \o Head(ui).children \o DocumentOrder(Tail(ui))

iter(ui) == [type |-> "iterator", seq |-> DocumentOrder(ui), pos |-> 0]

\* The truth value a list would have: false once nothing is left to hand out.
TruthyWhileElementsLeft(nodes) ==
    nodes # None /\ nodes.pos < Len(nodes.seq)

\* bool(self._nodes), as "not self._nodes" tests it: None is false, an lxml
\* iterator object is true whether or not it has elements left.
Truthy(nodes) == nodes # None

\* The commands of one uidump, in the order of lines 367-370: the dump,
\* then the pull, then the parse.  The dump writes the remote file, the pull
\* copies it to the local file and the parse reads that copy, so each step
\* works on what the step before it wrote in this same run.  A step that
\* raises ends the run: the later steps do not run.  The result names the
\* exception ("none": all three ran), the parsed tree and how often each
\* step ran.
Commands(ui, fault) ==
    LET dumped == _execute(fault = "dump")
        pulled == pull(fault)
        parsed == fromstring(ui, fault)
    IN  IF dumped # "ok"
        THEN [raised |-> dumped, ui |-> <<>>,
              dump |-> 1, pull |-> 0, parse |-> 0]
        ELSE IF pulled # "ok"
        THEN [raised |-> pulled, ui |-> <<>>,
              dump |-> 1, pull |-> 1, parse |-> 0]
        ELSE [raised |-> parsed.raised, ui |-> parsed.ui,
              dump |-> 1, pull |-> 1, parse |-> 1]

\* uidump adding the parsed elements to the ones already cached instead of
\* replacing them.
UidumpExtending(ui, old, fault) ==
    LET c == Commands(ui, fault)
    IN  [raised |-> c.raised,
         nodes |-> IF c.raised # "none" THEN old
                   ELSE IF old = None THEN iter(c.ui)
                   ELSE [old EXCEPT !.seq = old.seq \o DocumentOrder(c.ui)],
         dump |-> c.dump, pull |-> c.pull, parse |-> c.parse]

\* uidump dropping the cached snapshot before it runs its commands.
UidumpClearingFirst(ui, old, fault) ==
    LET c == Commands(ui, fault)
    IN  [raised |-> c.raised,
         nodes |-> IF c.raised = "none" THEN iter(c.ui) ELSE None,
         dump |-> c.dump, pull |-> c.pull, parse |-> c.parse]

\* uidump binding self._nodes before its commands have run: the cache is
\* replaced whether or not they succeed.
UidumpAssigningBeforeCommands(ui, old, fault) ==
    LET c == Commands(ui, fault)
    IN  [raised |-> c.raised, nodes |-> iter(ui),
         dump |-> c.dump, pull |-> c.pull, parse |-> c.parse]

\* One run of uidump on the hierarchy ui with the cache holding old:
\* self._nodes is assigned in the last line (371), after the three commands,
\* and keeps its value when one of them raises.
Uidump(ui, old, fault) ==
    LET c == Commands(ui, fault)
    IN  [raised |-> c.raised,
         nodes |-> IF c.raised = "none" THEN iter(c.ui) ELSE old,
         dump |-> c.dump, pull |-> c.pull, parse |-> c.parse]

\* "if update or not self._nodes: self.uidump()" (lines 375-376, 389-390):
\* the refresh a find runs first, or no refresh at all.
RefreshIfNeeded(ui, old, update, fault) ==
    IF update \/ ~Truthy(old)
    THEN [ran |-> 1, r |-> Uidump(ui, old, fault)]
    ELSE [ran |-> 0,
          r |-> [raised |-> "none", nodes |-> old,
                 dump |-> 0, pull |-> 0, parse |-> 0]]

(***************************************************************************)
(* The locator scan (find_element, lines 377-384)                          *)
(***************************************************************************)
\* The loop without its return at the first match: a later match replaces an
\* earlier one.
RECURSIVE ScanLastMatch(_, _, _, _)
ScanLastMatch(seq, i, by, value) ==
    IF i > Len(seq)
    THEN [pos |-> Len(seq), kind |-> "NoSuchElementException", value |-> None]
    ELSE LET rest == ScanLastMatch(seq, i + 1, by, value)
             coord == Coord(seq[i]["bounds"])
         IN  IF seq[i][by] # value \/ rest.kind # "NoSuchElementException"
             THEN rest
             ELSE IF Len(coord) < 4
             THEN [pos |-> i, kind |-> "IndexError", value |-> None]
             ELSE [pos |-> i, kind |-> "return",
                   value |-> Elements(seq[i], by, value, coord,
                                      ClickPoint(coord))]

\* "for node in self._nodes": the iterator hands out the elements after the
\* ones it already handed out.  i is the element looked at; the scan ends at
\* the first element whose attribute equals value, or when none is left.
RECURSIVE ScanFrom(_, _, _, _)
ScanFrom(seq, i, by, value) ==
    IF i > Len(seq)
    THEN [pos |-> Len(seq), kind |-> "NoSuchElementException", value |-> None]
    ELSE IF seq[i][by] = value
    THEN LET coord == Coord(seq[i]["bounds"])
         IN  IF Len(coord) < 4
             THEN [pos |-> i, kind |-> "IndexError", value |-> None]
             ELSE [pos |-> i, kind |-> "return",
                   value |-> Elements(seq[i], by, value, coord,
                                      ClickPoint(coord))]
    ELSE ScanFrom(seq, i + 1, by, value)

Scan(nodes, by, value) == ScanFrom(nodes.seq, nodes.pos + 1, by, value)

(***************************************************************************)
(* The calls                                                               *)
(***************************************************************************)
NoCall == [op |-> "none", by |-> "none", value |-> "none", update |-> FALSE]

Ended(kind, value) == [kind |-> kind, value |-> value]

\* What a call did.  failed is the step the environment made fail in this
\* call; again tells that the call's uidump ran to its end on a device UI
\* that had not changed since an earlier uidump ran to its end.
Did(ran, r, fault) ==
    [uidump |-> ran, dump |-> r.dump, pull |-> r.pull, parse |-> r.parse,
     failed |-> fault,
     again |-> (ran = 1 /\ r.raised = "none" /\ refreshed /\ ~uiChanged)]

NoSteps ==
    [uidump |-> 0, dump |-> 0, pull |-> 0, parse |-> 0, failed |-> "none",
     again |-> FALSE]

Idle == call = NoCall

NoThreads == [refresh |-> [pc |-> "off"], scan |-> [pc |-> "off"]]

Init ==
    /\ deviceUI \in Hierarchies
    /\ _nodes = None
    /\ call = NoCall
    /\ outcome = Ended("none", None)
    /\ steps = NoSteps
    /\ refreshed = FALSE
    /\ uiChanged = FALSE
    /\ threads = NoThreads

\* The history variables after a call whose refresh (if any) was r
Recorded(ran, r) ==
    /\ refreshed' = (refreshed \/ (ran = 1 /\ r.raised = "none"))
    /\ uiChanged' = (uiChanged /\ ~(ran = 1 /\ r.raised = "none"))

\* driver.uidump()
uidump(fault) ==
    LET r == Uidump(deviceUI, _nodes, fault)
    IN  /\ Idle
        /\ _nodes' = r.nodes
        /\ call' = [op |-> "uidump", by |-> "none", value |-> "none",
                    update |-> FALSE]
        /\ outcome' = Ended(IF r.raised = "none" THEN "return" ELSE r.raised,
                            None)
        /\ steps' = Did(1, r, fault)
        /\ Recorded(1, r)
        /\ UNCHANGED <<deviceUI, threads>>

\* driver.find_element(value, by, update)
find_element(value, by, update, fault) ==
    LET f == RefreshIfNeeded(deviceUI, _nodes, update, fault)
        s == Scan(f.r.nodes, by, value)
    IN  /\ Idle
        /\ fault \in FaultsOf(f.ran)
        /\ call' = [op |-> "find_element", by |-> by, value |-> value,
                    update |-> update]
        /\ steps' = Did(f.ran, f.r, fault)
        /\ Recorded(f.ran, f.r)
        /\ IF f.r.raised # "none"
           THEN /\ _nodes' = f.r.nodes
                /\ outcome' = Ended(f.r.raised, None)
           ELSE /\ _nodes' = [f.r.nodes EXCEPT !.pos = s.pos]
                /\ outcome' = Ended(s.kind, s.value)
        /\ UNCHANGED <<deviceUI, threads>>

\* driver.find_elements(value, by, update): after the refresh, line 391
\* iterates over "nodes", a name bound nowhere (not a local, not a module
\* global, not a builtin), so the loop raises NameError before it looks at
\* any element; self._nodes is not advanced and lines 392-401 never run.
find_elements(value, by, update, fault) ==
    LET f == RefreshIfNeeded(deviceUI, _nodes, update, fault)
    IN  /\ Idle
        /\ fault \in FaultsOf(f.ran)
        /\ call' = [op |-> "find_elements", by |-> by, value |-> value,
                    update |-> update]
        /\ steps' = Did(f.ran, f.r, fault)
        /\ Recorded(f.ran, f.r)
        /\ _nodes' = f.r.nodes
        /\ outcome' = Ended(IF f.r.raised # "none" THEN f.r.raised
                            ELSE "NameError", None)
        /\ UNCHANGED <<deviceUI, threads>>

\* The environment: the device shows another hierarchy.
ChangeUI ==
    /\ Idle
    /\ \E ui \in Hierarchies \ {deviceUI} : deviceUI' = ui
    /\ uiChanged' = TRUE
    /\ UNCHANGED <<_nodes, call, outcome, steps, refreshed, threads>>

\* The caller has the outcome of its call and goes on.
Continue ==
    /\ ~Idle
    /\ call' = NoCall
    /\ outcome' = Ended("none", None)
    /\ steps' = NoSteps
    /\ UNCHANGED <<deviceUI, _nodes, refreshed, uiChanged, threads>>

Refresh == \E fault \in Faults : uidump(fault)

FindOne ==
    \E value \in Values, by \in By, update \in BOOLEAN, fault \in Faults :
        find_element(value, by, update, fault)

FindAll ==
    \E value \in Values, by \in By, update \in BOOLEAN, fault \in Faults :
        find_elements(value, by, update, fault)

Next == Refresh \/ FindOne \/ FindAll \/ ChangeUI \/ Continue

Spec == Init /\ [][Next]_vars

(***************************************************************************)
(* Two threads on one driver: one runs uidump, the other find_element with *)
(* update=False.  Each action is one line of the code; a line that rebinds *)
(* or reads self._nodes does so in one step (an attribute of a Python      *)
(* object is rebound and read as one reference).  The driver starts with a *)
(* snapshot loaded, so the find_element runs no uidump of its own and the  *)
(* uidump of the other thread is the only refresh.                         *)
(***************************************************************************)
\* How many elements the cached iterator has handed out when the threads
\* start: none, or one.
Consumed == {0, 1}

\* The caches a session can hold once a snapshot is loaded: an iterator over
\* the elements of some hierarchy, fresh or partly consumed by earlier scans.
LoadedCaches ==
    { c \in { [iter(h) EXCEPT !.pos = k] : h \in Hierarchies, k \in Consumed } :
        c.pos <= Len(c.seq) }

InitThreads ==
    /\ deviceUI \in Hierarchies
    /\ call = NoCall
    /\ outcome = Ended("none", None)
    /\ steps = NoSteps
    /\ refreshed = TRUE
    /\ uiChanged = TRUE
    /\ \E cache \in LoadedCaches, by \in By, value \in Values :
          /\ _nodes = cache
          /\ threads =
                [refresh |-> [pc |-> "dump", file |-> <<>>, ui |-> <<>>,
                              raised |-> "none"],
                 scan |-> [pc |-> "check", by |-> by, value |-> value,
                           it |-> None, shared |-> FALSE, seen |-> <<>>,
                           late |-> FALSE, outcome |-> Ended("none", None)],
                 before |-> cache]

Session == <<deviceUI, call, outcome, steps, refreshed, uiChanged>>

\* The refreshing thread moves to pc, or stops with the exception raised.
Moved(pc, raised) ==
    IF raised = "none" THEN [threads.refresh EXCEPT !.pc = pc]
    ELSE [threads.refresh EXCEPT !.pc = "raised", !.raised = raised]

\* uidump, lines 367-368: the dump command writes the device's hierarchy to
\* the remote file.
DumpStep ==
    /\ threads.refresh.pc = "dump"
    /\ \E failed \in BOOLEAN :
          LET ran == _execute(failed)
          IN  threads' =
                [threads EXCEPT !.refresh =
                    IF ran = "ok"
                    THEN [Moved("pull", "none") EXCEPT !.file = deviceUI]
                    ELSE Moved("pull", ran)]
    /\ UNCHANGED <<Session, _nodes>>

\* uidump, line 369: the pull
PullStep ==
    /\ threads.refresh.pc = "pull"
    /\ \E fault \in {"none", "pull_exec", "pull_error"} :
          LET ran == pull(fault)
          IN  threads' =
                [threads EXCEPT !.refresh =
                    Moved("parse", IF ran = "ok" THEN "none" ELSE ran)]
    /\ UNCHANGED <<Session, _nodes>>

\* uidump, line 370: the parse binds the local variable ui
ParseStep ==
    /\ threads.refresh.pc = "parse"
    /\ \E fault \in {"none", "parse"} :
          LET parsed == fromstring(threads.refresh.file, fault)
          IN  threads' =
                [threads EXCEPT !.refresh =
                    [Moved("assign", parsed.raised) EXCEPT !.ui = parsed.ui]]
    /\ UNCHANGED <<Session, _nodes>>

\* uidump, line 371: self._nodes is bound to a new iterator.  The iterator the
\* other thread's loop holds, if it holds one, is no longer the cached one.
AssignStep ==
    /\ threads.refresh.pc = "assign"
    /\ _nodes' = iter(threads.refresh.ui)
    /\ threads' = [threads EXCEPT !.refresh.pc = "done",
                                  !.scan.shared = FALSE]
    /\ UNCHANGED Session

\* find_element, line 375: "if update or not self._nodes" with update=False
CheckStep ==
    /\ threads.scan.pc = "check"
    /\ threads' = [threads EXCEPT !.scan.pc =
                      IF Truthy(_nodes) THEN "for" ELSE "uidump"]
    /\ UNCHANGED <<Session, _nodes>>

\* find_element, line 377: "for node in self._nodes" evaluates self._nodes
\* once; the loop holds that iterator object from then on.
ForStep ==
    /\ threads.scan.pc = "for"
    /\ threads' = [threads EXCEPT !.scan.pc = "next", !.scan.it = _nodes,
                                  !.scan.shared = TRUE]
    /\ UNCHANGED <<Session, _nodes>>

\* A loop that reads self._nodes again at every turn and goes on at the
\* position it has reached.
LoopIteratorRereadingCache(it, cache) == [cache EXCEPT !.pos = it.pos]

\* The iterator the loop advances: the object it took at line 377, whatever
\* self._nodes is bound to by now.
LoopIterator(it, cache) == it

\* find_element, lines 377-384, one turn of the loop: the iterator hands out
\* its next element, or the loop ends and line 384 raises; the body returns
\* at a match (or raises on its bounds).  Advancing the iterator advances the
\* cached one when they are the same object.
NextStep ==
    /\ threads.scan.pc = "next"
    /\ LET sc == threads.scan
           it == LoopIterator(sc.it, _nodes)
       IN  IF it.pos >= Len(it.seq)
           THEN /\ threads' =
                     [threads EXCEPT !.scan.pc = "done",
                        !.scan.outcome =
                            Ended("NoSuchElementException", None)]
                /\ UNCHANGED _nodes
           ELSE LET node == it.seq[it.pos + 1]
                    body == ScanFrom(<<node>>, 1, sc.by, sc.value)
                    match == body.kind # "NoSuchElementException"
                IN  /\ threads' =
                         [threads EXCEPT
                            !.scan.it = [it EXCEPT !.pos = @ + 1],
                            !.scan.seen = Append(@, node),
                            !.scan.late =
                                @ \/ threads.refresh.pc = "done",
                            !.scan.pc = IF match THEN "done" ELSE "next",
                            !.scan.outcome =
                                IF match THEN Ended(body.kind, body.value)
                                ELSE @]
                    /\ _nodes' = IF sc.shared
                                 THEN [_nodes EXCEPT !.pos = @ + 1]
                                 ELSE _nodes
    /\ UNCHANGED Session

NextThreads ==
    \/ DumpStep \/ PullStep \/ ParseStep \/ AssignStep
    \/ CheckStep \/ ForStep \/ NextStep

SpecThreads == InitThreads /\ [][NextThreads]_vars

(***************************************************************************)
(* Properties                                                              *)
(***************************************************************************)
\* The cached elements, in the order the iterator hands them out
Snapshot == _nodes.seq

\* The positions of the elements of seq whose attribute by equals value
Matching(seq, by, value) == { i \in DOMAIN seq : seq[i][by] = value }

Earliest(S) == CHOOSE i \in S : \A j \in S : i <= j

\* The positions in the snapshot that the latest call's locator matches
Matched == Matching(Snapshot, call.by, call.value)

Finds == {"find_element", "find_elements"}

\* The latest call was a find whose refresh, if it ran one, did not raise
FindReachedScan == call.op \in Finds /\ outcome.kind \notin RefreshErrors

\* The latest call was a find_element that scanned a snapshot it had just
\* loaded
FreshScan ==
    /\ call.op = "find_element"
    /\ steps.uidump = 1
    /\ outcome.kind \notin RefreshErrors

\* The result that describes the element at position i of the snapshot
Describing(i) ==
    LET coord == Coord(Snapshot[i]["bounds"])
    IN  Elements(Snapshot[i], call.by, call.value, coord,
                 <<TrueDivBy2(coord[1] + coord[3]),
                   TrueDivBy2(coord[2] + coord[4])>>)

FourIntegers(i) == Len(Coord(Snapshot[i]["bounds"])) = 4

\* C1: a find_element or find_elements call runs uidump exactly once when
\* update is true or no uidump has ever run to its end, and not at all when
\* update is false and a snapshot is loaded; the refresh comes before the
\* scan, so after a refresh that did not raise the cache holds the device's
\* elements in document order.
C1_RefreshOnlyWhenAsked ==
    [][ (Idle /\ call'.op \in Finds) =>
          /\ steps'.uidump = (IF call'.update \/ ~refreshed THEN 1 ELSE 0)
          /\ steps'.dump = steps'.uidump
          /\ (steps'.uidump = 1 /\ outcome'.kind \notin RefreshErrors)
                => _nodes'.seq = DocumentOrder(deviceUI) ]_vars

\* C1 witness: a find with update=False on a loaded cache whose iterator has
\* nothing left ran no refresh.
C1_NoRefreshOnLoaded ==
    /\ call.op = "find_element"
    /\ ~call.update
    /\ steps.uidump = 0
    /\ refreshed
    /\ Len(Snapshot) > 0
    /\ _nodes.pos = Len(Snapshot)

\* C2: a find_element with update=False on a loaded cache, with no refresh,
\* returns the first element of the snapshot that matches its locator,
\* whatever earlier scans did (stated for a first match whose bounds hold
\* four integers).
C2_EveryScanFromTheStart ==
    ( /\ call.op = "find_element"
      /\ ~call.update
      /\ steps.uidump = 0
      /\ Matched # {}
      /\ FourIntegers(Earliest(Matched)) )
    => /\ outcome.kind = "return"
       /\ outcome.value = Describing(Earliest(Matched))

\* C3: when two or more elements of a freshly loaded snapshot match the
\* locator, find_element stops at the earliest of them in document order and
\* its outcome is that element's: the result carries its attributes and its
\* bounds (or the call raises on its bounds); a later match is never
\* returned.
C3_EarliestMatch ==
    (FreshScan /\ Cardinality(Matched) >= 2)
    => LET i == Earliest(Matched)
           coord == Coord(Snapshot[i]["bounds"])
       IN  /\ _nodes.pos = i
           /\ IF Len(coord) >= 4
              THEN /\ outcome.kind = "return"
                   /\ outcome.value.attrib = Snapshot[i]
                   /\ outcome.value.coord = coord
              ELSE outcome.kind = "IndexError"

\* C3 witness: two elements with the same id and different bounds, the
\* first one returned.
C3_TwoMatchesFirstReturned ==
    /\ FreshScan
    /\ call.by = "resource-id"
    /\ Matched = {1, 2}
    /\ Snapshot[1]["bounds"] # Snapshot[2]["bounds"]
    /\ outcome.kind = "return"
    /\ outcome.value.attrib = Snapshot[1]

\* C4: when no element of the snapshot matches the locator, find_element and
\* find_elements both end in NoSuchElementException.
C4_NoMatchRaisesNoSuchElement ==
    (FindReachedScan /\ Matched = {})
    => outcome.kind = "NoSuchElementException"

\* C5: when exactly one element of the snapshot matches the locator,
\* find_element returns a result, find_elements returns a one-element list,
\* and both describe that element (stated for an element whose bounds hold
\* four integers, and for find_element on a freshly loaded snapshot).
C5_OneMatchSameNode ==
    ( /\ FindReachedScan
      /\ call.op = "find_element" => steps.uidump = 1
      /\ Cardinality(Matched) = 1
      /\ FourIntegers(Earliest(Matched)) )
    => /\ outcome.kind = "return"
       /\ outcome.value = IF call.op = "find_element"
                          THEN Describing(Earliest(Matched))
                          ELSE <<Describing(Earliest(Matched))>>

\* C6: for a returned element whose bounds hold four integers, the click
\* point is the pair of integers ((left+right) div 2, (top+bottom) div 2).
C6_ClickPointIsTruncatedMidpoint ==
    ( /\ call.op = "find_element"
      /\ outcome.kind = "return"
      /\ Len(outcome.value.coord) = 4 )
    => LET c == outcome.value.coord
       IN  outcome.value.click_point =
               <<Whole((c[1] + c[3]) \div 2), Whole((c[2] + c[4]) \div 2)>>

\* C7: when the element a find_element stops at (on a freshly loaded
\* snapshot: the earliest match) has bounds that do not hold exactly four
\* integers, the call ends in ParseError.
C7_MalformedBoundsRaiseParseError ==
    ( /\ FreshScan
      /\ Matched # {}
      /\ ~FourIntegers(Earliest(Matched)) )
    => outcome.kind = "ParseError"

\* C8: a uidump that runs to its end on a device UI that has not changed
\* since the previous uidump ran to its end leaves the cache with the same
\* elements in the same order, and, when nothing scans in the same call, as
\* a fresh iterator over them.
C8_SameUISameSnapshot ==
    [][ (Idle /\ steps'.again) =>
          /\ _nodes'.seq = _nodes.seq
          /\ call'.op # "find_element"
                => _nodes' = [type |-> "iterator", seq |-> _nodes.seq,
                              pos |-> 0] ]_vars

\* C8 witness: a second uidump on an unchanged UI of two elements has
\* returned.
C8_RefreshedAgain ==
    /\ call.op = "uidump"
    /\ outcome.kind = "return"
    /\ steps.again
    /\ Len(Snapshot) >= 2

\* The exception each failing step surfaces as
ErrorOf(fault) ==
    CASE fault = "dump" -> "DeviceCommandError"
      [] fault = "pull_exec" -> "DeviceCommandError"
      [] fault = "pull_error" -> "FileNotFoundError"
      [] fault = "parse" -> "ParserError"

\* C9: a call runs uidump at most once, and a uidump issues the dump command
\* exactly once and the pull at most once; when a step fails, the call ends
\* in that step's exception with no result, and the steps after the failed
\* one have not run.
C9_FailureSurfacesNoRetry ==
    /\ steps.uidump \in {0, 1}
    /\ steps.dump = steps.uidump
    /\ steps.pull \in {0, 1}
    /\ steps.parse \in {0, 1}
    /\ steps.failed # "none" =>
          /\ outcome = Ended(ErrorOf(steps.failed), None)
          /\ steps.pull = (IF steps.failed = "dump" THEN 0 ELSE 1)
          /\ steps.parse = (IF steps.failed = "parse" THEN 1 ELSE 0)

\* C9 witness: a find_element on a loaded cache whose refresh failed in the
\* pull ended in the pull's exception.
C9_FindFailedInPull ==
    /\ call.op = "find_element"
    /\ refreshed
    /\ steps.failed = "pull_error"
    /\ outcome.kind = "FileNotFoundError"

\* C10: the cache is empty (None) exactly while no uidump has run to its
\* end, and once it holds a snapshot no call makes it empty again.
C10_EmptyThenLoaded ==
    /\ []((_nodes = None) <=> ~refreshed)
    /\ [][_nodes # None => _nodes' # None]_vars

\* C10 witness: a uidump failed on a loaded cache, and the cache is still
\* loaded.
C10_LoadedAfterFailedRefresh ==
    /\ call.op = "uidump"
    /\ steps.failed = "parse"
    /\ refreshed
    /\ _nodes # None

\* C11: in every interleaving of one uidump with one find_element scan, the
\* elements the scan has looked at are consecutive elements of the snapshot
\* cached before the uidump, from where its iterator stood, or the first
\* elements of the new snapshot, never some of each; and a scan that ends
\* with no match has looked at all remaining elements of that one snapshot.
C11_ScanSeesOneSnapshot ==
    threads.scan.pc # "off" =>
      LET seen == threads.scan.seen
          n == Len(seen)
          old == threads.before
          new == DocumentOrder(deviceUI)
          fromOld == /\ old.pos + n <= Len(old.seq)
                     /\ seen = SubSeq(old.seq, old.pos + 1, old.pos + n)
          fromNew == /\ n <= Len(new)
                     /\ seen = SubSeq(new, 1, n)
      IN  /\ fromOld \/ fromNew
          /\ threads.scan.outcome.kind = "NoSuchElementException" =>
                \/ fromOld /\ old.pos + n = Len(old.seq)
                \/ fromNew /\ n = Len(new)

\* C11 witness: the scan took the old iterator, the uidump replaced the
\* cache, and the scan went on to a second element, which is the old
\* snapshot's and not the new one's.
C11_ScanWentOnAfterAssign ==
    /\ threads.scan.pc = "done"
    /\ threads.refresh.pc = "done"
    /\ threads.scan.late
    /\ ~threads.scan.shared
    /\ Len(threads.scan.seen) = 2
    /\ Len(_nodes.seq) = 2
    /\ threads.scan.seen[2] # _nodes.seq[2]

\* C12: a uidump runs the dump, then the pull, then the parse, each only
\* after the one before it succeeded, and binds self._nodes only after all
\* three: when one of them fails the cache is exactly what it was before the
\* call (None, or the previous iterator where it stood), and when none fails
\* the cache holds the device's elements.
C12_CacheAssignedAfterAllSteps ==
    [][ (Idle /\ steps'.uidump = 1) =>
          /\ steps'.failed = "dump" => steps'.pull = 0 /\ steps'.parse = 0
          /\ steps'.failed \in {"pull_exec", "pull_error"} =>
                steps'.pull = 1 /\ steps'.parse = 0
          /\ steps'.failed # "none" => _nodes' = _nodes
          /\ steps'.failed = "none" =>
                /\ steps'.dump = 1 /\ steps'.pull = 1 /\ steps'.parse = 1
                /\ _nodes'.seq = DocumentOrder(deviceUI) ]_vars

\* C12 witness: a find_element with update=True whose parse failed left the
\* previous snapshot, partly consumed and different from the device's
\* elements, in the cache.
C12_FailedRefreshKeptSnapshot ==
    /\ call.op = "find_element"
    /\ call.update
    /\ steps.failed = "parse"
    /\ refreshed
    /\ _nodes.pos > 0
    /\ _nodes.seq # DocumentOrder(deviceUI)

====
